---- MODULE Spec2Model ----
(***************************************************************************)
(* Model of django_elasticache.memcached.ElastiCache: a django cache       *)
(* backend that discovers the nodes of a memcached cluster through one     *)
(* configuration endpoint, keeps the discovered list in                    *)
(* _cluster_nodes_cache, keeps the pylibmc client built from it in         *)
(* container._client, and clears _cluster_nodes_cache when a wrapped       *)
(* operation raises.                                                       *)
(*                                                                         *)
(* Spec starts from a constructed instance; its actions are the public     *)
(* calls, each run to completion (the backend is a passive library called  *)
(* synchronously), made by several execution contexts (threads) one call   *)
(* at a time.  InitSpec is the construction of an instance from its        *)
(* arguments.                                                              *)
(***************************************************************************)
EXTENDS Integers, Sequences, FiniteSets, TLC

(* ------------------------------ bounds --------------------------------- *)

\* public calls made on a constructed instance
MaxCalls == 3
\* length of a node list returned by the configuration endpoint
MaxNodes == 2
\* characters in one configured endpoint string
MaxEndpointLen == 3
\* endpoints in the configured server list
MaxServers == 2
\* execution contexts (threads) sharing the instance
NumContexts == 2

(* ------------------------------ values --------------------------------- *)

\* an optional value: None or Some(x)
None == << >>
Some(x) == << x >>

Contexts == 1 .. NumContexts
\* where a client handle is stored: 0 is the instance itself, c is the
\* thread-local storage of context c
Containers == 0 .. NumContexts

Nodes == {"n1", "n2"}
\* the endpoint lists every node once
NodeLists ==
    {l \in UNION {[1 .. n -> Nodes] : n \in 1 .. MaxNodes} :
        \A i, j \in 1 .. Len(l) : l[i] = l[j] => i = j}

\* characters of an endpoint string
Chars == {"h", ":"}
Endpoints == UNION {[1 .. n -> Chars] : n \in 1 .. MaxEndpointLen}
ServerInputs == UNION {[1 .. n -> Endpoints] : n \in 0 .. MaxServers}

\* an exception: its type, and for the cluster error the endpoint and cause
Exc(type, endpoint, cause) == [type |-> type, endpoint |-> endpoint, cause |-> cause]
NoExc == Exc("none", << >>, "none")
\* errors of the underlying key-value client (opaque to the backend)
OpErrors == {Exc("pylibmc.ConnectionError", << >>, "none"), Exc("pylibmc.ServerDown", << >>, "none")}
OpOutcomes == {NoExc} \cup OpErrors

\* what the network does when the configuration endpoint is contacted:
\* the endpoint answers with a node list, the address does not resolve
\* (socket.gaierror), the call times out (socket.timeout), or the connection
\* fails otherwise (socket.error, e.g. connection refused)
NetFailures == {"socket.gaierror", "socket.timeout", "socket.error"}
NetOutcomes ==
    {[kind |-> "ok", nodes |-> l, tolerated |-> FALSE] : l \in NodeLists}
        \cup {[kind |-> k, nodes |-> << >>, tolerated |-> t] :
                  k \in NetFailures, t \in BOOLEAN}

\* a python dict with string keys, as a set of <<key, value>> pairs; the
\* nested dict under 'behaviors', when present, is kept beside it
Dict(top, behaviors) == [top |-> top, behaviors |-> behaviors]
DictLen(d) == Cardinality(d.top) + Len(d.behaviors)
DictHas(d, k) == \E kv \in d.top : kv[1] = k
DictVal(d, k) == (CHOOSE kv \in d.top : kv[1] = k)[2]
TcpNodelay == {<<"tcp_nodelay", "True">>}
IgnoreErrors == {<<"IGNORE_CLUSTER_ERRORS", "True">>}
OptionInputs ==
    { Dict({}, None),
      Dict(IgnoreErrors, None),
      Dict(TcpNodelay, None),
      Dict({}, Some(TcpNodelay)) }
TimeoutInputs == {"None"}

\* str.split(sep): the pieces of s between occurrences of sep
RECURSIVE Split(_, _)
Split(s, sep) ==
    IF \A i \in 1 .. Len(s) : s[i] # sep
    THEN << s >>
    ELSE LET i == CHOOSE j \in 1 .. Len(s) :
                      s[j] = sep /\ \A k \in 1 .. j - 1 : s[k] # sep
         IN  << SubSeq(s, 1, i - 1) >> \o Split(SubSeq(s, i + 1, Len(s)), sep)

(* ------------------------------- state --------------------------------- *)

VARIABLES
    \* "new" before construction, "ready" once __init__ returned, "failed"
    \* once __init__ raised
    phase,
    \* what __init__ raised (NoExc when it returned)
    init_exc,
    \* self._servers, self._options (set by the base class from the arguments)
    _servers, _options,
    \* self._discovery_timeout, self._ignore_cluster_errors
    _discovery_timeout, _ignore_cluster_errors,
    \* whether the host framework gave the instance thread-local storage
    \* (self._local exists)
    has_local,
    \* self._cluster_nodes_cache: None when the attribute is absent
    _cluster_nodes_cache,
    \* container._client for every container: None when absent
    _client,
    \* calls of get_cluster_info and of self._lib.Client made so far
    discoveries, constructions,
    \* public calls made so far on the constructed instance
    calls,
    \* what the most recent public call did and returned; after_clear tells
    \* whether the call before was clear_cluster_nodes_cache and whether that
    \* removed a list, found is the node list the endpoint answered with,
    \* tolerated whether get_cluster_info would degrade the failure it met
    last,
    \* a discovery failed and get_cluster_nodes has not been asked since
    pending,
    \* the first successful get_cluster_nodes call since the last
    \* invalidation or error: its value and the discoveries before it
    anchor,
    \* "none": no call yet; "okops": only successful wrapped operations of
    \* one context so far; "other": anything else
    hist,
    \* for every context the call it is in when calls of several contexts
    \* interleave: the line it is at (pc), its local variables and, once it
    \* is back at "idle", what its call raised or returned
    threads

vars == << phase, init_exc, _servers, _options, _discovery_timeout, _ignore_cluster_errors,
           has_local, _cluster_nodes_cache, _client, discoveries, constructions,
           calls, last, pending, anchor, hist, threads >>

config == << _servers, _options, _discovery_timeout, _ignore_cluster_errors, has_local >>

\* the mutable part of the instance the handlers work on, with the counters
\* of the external calls they make
Self == [cache |-> _cluster_nodes_cache, client |-> _client,
         disc |-> discoveries, cons |-> constructions]

(* ------------------------- external collaborators ---------------------- *)

\* the NodeList discovery yields when errors are ignored and the endpoint
\* cannot be reached
DegradedNodeList == << >>

\* cluster_utils.get_cluster_info(host, port, timeout, ignore_cluster_errors)
\* ['nodes']: the endpoint's node list, or the connectivity failure raised.
\* What it does with a failure under ignore_cluster_errors is its own
\* policy and left open: the failure is degraded to DegradedNodeList
\* (net.tolerated) or raised all the same
get_cluster_info(server, port, timeout, ignore_cluster_errors, net) ==
    IF net.kind = "ok"
    THEN [exc |-> "none", nodes |-> net.nodes]
    ELSE IF ignore_cluster_errors /\ net.tolerated
         THEN [exc |-> "none", nodes |-> DegradedNodeList]
         ELSE [exc |-> net.kind, nodes |-> << >>]

(* ------------------------------ handlers ------------------------------- *)
(* A handler takes the mutable part s of the instance and yields a record  *)
(* with the instance after it (s), the exception it raised (exc, NoExc     *)
(* when it returned) and what it returned; asked, called and failed tell   *)
(* whether get_cluster_nodes was run, whether it ran get_cluster_info and  *)
(* whether that raised.                                                    *)

\* del self._cluster_nodes_cache
del_cluster_nodes_cache(s) ==
    IF s.cache = None
    THEN [s |-> s, exc |-> Exc("AttributeError", << >>, "none")]
    ELSE [s |-> [s EXCEPT !.cache = None], exc |-> NoExc]

\* a slip: the presence test is inverted
clear_cluster_nodes_cache_inverted(s) ==
    IF s.cache = None
    THEN del_cluster_nodes_cache(s)
    ELSE [s |-> s, exc |-> NoExc]

\* ElastiCache.clear_cluster_nodes_cache
clear_cluster_nodes_cache(s) ==
    IF s.cache # None
    THEN del_cluster_nodes_cache(s)
    ELSE [s |-> s, exc |-> NoExc]

\* a slip: the result of a failed discovery is kept as an empty list
store_cluster_nodes_caching_failure(s, r) ==
    IF r.exc \in {"socket.gaierror", "socket.timeout"}
    THEN [s |-> [s EXCEPT !.disc = @ + 1, !.cache = Some(<< >>)],
          exc |-> Exc("Exception", _servers[1], r.exc),
          value |-> << >>, asked |-> TRUE, called |-> TRUE, failed |-> TRUE]
    ELSE IF r.exc # "none"
    THEN [s |-> [s EXCEPT !.disc = @ + 1, !.cache = Some(<< >>)],
          exc |-> Exc(r.exc, << >>, "none"),
          value |-> << >>, asked |-> TRUE, called |-> TRUE, failed |-> TRUE]
    ELSE [s |-> [s EXCEPT !.disc = @ + 1, !.cache = Some(r.nodes)],
          exc |-> NoExc,
          value |-> r.nodes, asked |-> TRUE, called |-> TRUE, failed |-> FALSE]

\* the list l back to front
Reverse(l) == [i \in 1 .. Len(l) |-> l[Len(l) + 1 - i]]

\* a slip: the node list is kept and returned in another order than the
\* endpoint gave it
store_cluster_nodes_reversed(s, r) ==
    IF r.exc \in {"socket.gaierror", "socket.timeout"}
    THEN [s |-> [s EXCEPT !.disc = @ + 1],
          exc |-> Exc("Exception", _servers[1], r.exc),
          value |-> << >>, asked |-> TRUE, called |-> TRUE, failed |-> TRUE]
    ELSE IF r.exc # "none"
    THEN [s |-> [s EXCEPT !.disc = @ + 1],
          exc |-> Exc(r.exc, << >>, "none"),
          value |-> << >>, asked |-> TRUE, called |-> TRUE, failed |-> TRUE]
    ELSE [s |-> [s EXCEPT !.disc = @ + 1, !.cache = Some(Reverse(r.nodes))],
          exc |-> NoExc,
          value |-> Reverse(r.nodes), asked |-> TRUE, called |-> TRUE, failed |-> FALSE]

\* the try block of get_cluster_nodes with the answer r of get_cluster_info:
\* the node list is kept, socket.gaierror and socket.timeout are wrapped,
\* any other exception passes
store_cluster_nodes(s, r) ==
    IF r.exc \in {"socket.gaierror", "socket.timeout"}
    THEN [s |-> [s EXCEPT !.disc = @ + 1],
          exc |-> Exc("Exception", _servers[1], r.exc),
          value |-> << >>, asked |-> TRUE, called |-> TRUE, failed |-> TRUE]
    ELSE IF r.exc # "none"
    THEN [s |-> [s EXCEPT !.disc = @ + 1],
          exc |-> Exc(r.exc, << >>, "none"),
          value |-> << >>, asked |-> TRUE, called |-> TRUE, failed |-> TRUE]
    ELSE [s |-> [s EXCEPT !.disc = @ + 1, !.cache = Some(r.nodes)],
          exc |-> NoExc,
          value |-> r.nodes, asked |-> TRUE, called |-> TRUE, failed |-> FALSE]

\* server, port = self._servers[0].split(':') and the call of get_cluster_info
discover(parts, ignore_cluster_errors, net) ==
    get_cluster_info(parts[1], parts[2], _discovery_timeout,
                     ignore_cluster_errors, net)

\* return self._cluster_nodes_cache
cached_cluster_nodes(s) ==
    [s |-> s, exc |-> NoExc, value |-> s.cache[1],
     asked |-> TRUE, called |-> FALSE, failed |-> FALSE]

\* a slip: the cached list is never consulted, every call discovers again
get_cluster_nodes_uncached(s, net) ==
    store_cluster_nodes(s,
        discover(Split(_servers[1], ":"), _ignore_cluster_errors, net))

\* a slip: the ignore-errors flag of the instance is not handed to discovery
get_cluster_nodes_flag_dropped(s, net) ==
    IF s.cache = None
    THEN store_cluster_nodes(s, discover(Split(_servers[1], ":"), FALSE, net))
    ELSE cached_cluster_nodes(s)

\* ElastiCache.get_cluster_nodes; net is what the network does if the
\* configuration endpoint is contacted
get_cluster_nodes(s, net) ==
    IF s.cache = None
    THEN store_cluster_nodes(s,
             discover(Split(_servers[1], ":"), _ignore_cluster_errors, net))
    ELSE cached_cluster_nodes(s)

\* the container of context c: getattr(self, '_local', self)
\* a slip: the per-thread storage is not looked at, the client is kept on
\* the instance
Container_of_instance(c) == 0

\* container = getattr(self, '_local', self): the container context c uses
Container(c) == IF has_local THEN c ELSE 0

\* client.behaviors = self._options.get('behaviors', self._options)
Behaviors(options) ==
    IF options.behaviors # None
    THEN Dict(options.behaviors[1], None)
    ELSE options

\* self._lib.Client(nodes), with client.behaviors set when self._options
\* is not empty; id tells the constructed clients apart, owner is the
\* context whose read of _cache constructed it, applied counts the
\* assignments to client.behaviors
NewClient(id, nodes, c) ==
    IF DictLen(_options) > 0
    THEN [id |-> id, nodes |-> nodes, owner |-> c,
          behaviors |-> Some(Behaviors(_options)), applied |-> 1]
    ELSE [id |-> id, nodes |-> nodes, owner |-> c,
          behaviors |-> None, applied |-> 0]

\* a slip: the behaviors are assigned again to the client found in the
\* container
cached_client_applying(s, c) ==
    IF DictLen(_options) > 0
    THEN [s |-> [s EXCEPT !.client[Container(c)] =
                     Some([@[1] EXCEPT !.behaviors = Some(Behaviors(_options)),
                                       !.applied = @ + 1])],
          exc |-> NoExc,
          handle |-> Some([s.client[Container(c)][1] EXCEPT
                              !.behaviors = Some(Behaviors(_options)),
                              !.applied = @ + 1]),
          asked |-> FALSE, called |-> FALSE, failed |-> FALSE]
    ELSE [s |-> s, exc |-> NoExc, handle |-> s.client[Container(c)],
          asked |-> FALSE, called |-> FALSE, failed |-> FALSE]

\* return client, for the client found in the container
cached_client(s, c) ==
    [s |-> s, exc |-> NoExc, handle |-> s.client[Container(c)],
     asked |-> FALSE, called |-> FALSE, failed |-> FALSE]

\* a slip: the constructed client is returned but not kept in the container
construct_client_not_stored(c, g) ==
    IF g.exc # NoExc
    THEN [s |-> g.s, exc |-> g.exc, handle |-> None,
          asked |-> g.asked, called |-> g.called, failed |-> g.failed]
    ELSE [s |-> [g.s EXCEPT !.cons = @ + 1],
          exc |-> NoExc,
          handle |-> Some(NewClient(g.s.cons + 1, g.value, c)),
          asked |-> g.asked, called |-> g.called, failed |-> g.failed]

\* the rest of _cache once get_cluster_nodes has answered g: the client is
\* constructed from the node list and kept in the container
construct_client(c, g) ==
    IF g.exc # NoExc
    THEN [s |-> g.s, exc |-> g.exc, handle |-> None,
          asked |-> g.asked, called |-> g.called, failed |-> g.failed]
    ELSE [s |-> [g.s EXCEPT !.cons = @ + 1,
                            !.client[Container(c)] =
                                Some(NewClient(g.s.cons + 1, g.value, c))],
          exc |-> NoExc,
          handle |-> Some(NewClient(g.s.cons + 1, g.value, c)),
          asked |-> g.asked, called |-> g.called, failed |-> g.failed]

\* the ElastiCache._cache property read by context c
_cache(s, c, net) ==
    IF s.client[Container(c)] # None
    THEN cached_client(s, c)
    ELSE construct_client(c, get_cluster_nodes(s, net))

\* the operation of the underlying client on the client a that _cache gave;
\* res is what the underlying client does with it
run_operation(a, res) ==
    IF a.exc # NoExc
    THEN [s |-> a.s, exc |-> a.exc, op_exc |-> NoExc, op_calls |-> 0,
          used |-> None, asked |-> a.asked, called |-> a.called, failed |-> a.failed]
    ELSE [s |-> a.s, exc |-> res, op_exc |-> res, op_calls |-> 1,
          used |-> a.handle, asked |-> a.asked, called |-> a.called, failed |-> a.failed]

\* the operation of the base class called by context c: self._cache.<op>(...)
base_operation(s, c, net, res) == run_operation(_cache(s, c, net), res)

\* the call returned what the run r of the operation returned
returned(r) ==
    [s |-> r.s, exc |-> NoExc, op_exc |-> r.op_exc, op_calls |-> r.op_calls,
     used |-> r.used, asked |-> r.asked, called |-> r.called, failed |-> r.failed,
     raises |-> 0, disc_after |-> 0, cons_after |-> 0]

\* the run r of the operation raised and the invalidation k followed: the
\* call raises what the invalidation raised, or else what the operation raised
raised(r, k) ==
    [s |-> k.s, exc |-> IF k.exc # NoExc THEN k.exc ELSE r.exc,
     op_exc |-> r.op_exc, op_calls |-> r.op_calls,
     used |-> r.used, asked |-> r.asked, called |-> r.called, failed |-> r.failed,
     raises |-> 1, disc_after |-> k.s.disc - r.s.disc, cons_after |-> k.s.cons - r.s.cons]

\* the operation is run a second time, as run r2, after the run r raised
retried(r, r2) ==
    [s |-> r2.s, exc |-> r2.exc,
     op_exc |-> r.op_exc, op_calls |-> r.op_calls + r2.op_calls,
     used |-> r2.used, asked |-> r.asked, called |-> r.called, failed |-> r.failed,
     raises |-> IF r2.exc = NoExc THEN 0 ELSE 1,
     disc_after |-> r2.s.disc - r.s.disc, cons_after |-> r2.s.cons - r.s.cons]

\* a slip: after the invalidation the operation is run once more
wrapper_retrying(r, c, net, res) ==
    IF r.exc = NoExc
    THEN returned(r)
    ELSE retried(r, base_operation(clear_cluster_nodes_cache(r.s).s, c, net, res))

\* the wrapper of invalidate_cache_after_error around the run r of f
wrapper(r, c, net, res) ==
    IF r.exc = NoExc
    THEN returned(r)
    ELSE raised(r, clear_cluster_nodes_cache(r.s))

\* a wrapped operation: invalidate_cache_after_error(f)(self, ...)
invalidate_cache_after_error(s, c, net, res) ==
    wrapper(base_operation(s, c, net, res), c, net, res)

(* ------------------------------ actions -------------------------------- *)

\* the record of a public call that did nothing
Called(kind, ctx) ==
    [kind |-> kind, ctx |-> ctx, exc |-> NoExc, op_exc |-> NoExc, op_calls |-> 0,
     raises |-> 0, disc |-> 0, cons |-> 0, disc_after |-> 0, cons_after |-> 0,
     used |-> None, value |-> << >>, net |-> "unused", asked |-> FALSE,
     failed |-> FALSE, pending_before |-> FALSE, anchored |-> FALSE,
     after_op_failure |-> FALSE, client_kept |-> TRUE, nodes_kept |-> TRUE,
     after_clear |-> "no", found |-> << >>, tolerated |-> FALSE]

\* a context that is in no call
Idle ==
    [pc |-> "idle", call |-> "none", orig |-> NoExc, nodes |-> << >>,
     handle |-> None, exc |-> NoExc, value |-> << >>]

\* nothing cached, nothing called yet
Fresh ==
    /\ _cluster_nodes_cache = None
    /\ _client = [k \in Containers |-> None]
    /\ discoveries = 0
    /\ constructions = 0
    /\ calls = 0
    /\ last = Called("none", 0)
    /\ pending = FALSE
    /\ anchor = None
    /\ hist = [state |-> "none", ctx |-> 0]
    /\ threads = [c \in Contexts |-> Idle]

\* a slip: the endpoint is only required to have a colon
init_error_lenient(servers) ==
    IF Len(servers) > 1
    THEN Exc("InvalidCacheBackendError", << >>, "none")
    ELSE IF Len(servers) = 0
    THEN Exc("IndexError", << >>, "none")
    ELSE IF Len(Split(servers[1], ":")) < 2
    THEN Exc("InvalidCacheBackendError", << >>, "none")
    ELSE NoExc

\* the checks of ElastiCache.__init__ on self._servers: what it raises
init_error(servers) ==
    IF Len(servers) > 1
    THEN Exc("InvalidCacheBackendError", << >>, "none")
    ELSE IF Len(servers) = 0
    THEN Exc("IndexError", << >>, "none")
    ELSE IF Len(Split(servers[1], ":")) # 2
    THEN Exc("InvalidCacheBackendError", << >>, "none")
    ELSE NoExc

\* the instance attributes ElastiCache.__init__ leaves behind: servers and
\* options are what the base class made of the arguments, timeout is
\* params['DISCOVERY_TIMEOUT'], local is whether the base class set
\* self._local
__init__(servers, options, timeout, local) ==
    LET e == init_error(servers)
    IN  [exc |-> e,
         servers |-> servers, options |-> options, local |-> local,
         timeout |-> IF e = NoExc THEN timeout ELSE "unset",
         ignore |-> IF e = NoExc /\ DictHas(options, "IGNORE_CLUSTER_ERRORS")
                    THEN DictVal(options, "IGNORE_CLUSTER_ERRORS") = "True"
                    ELSE FALSE]

\* the attributes of the instance are those __init__ left
Holds(o) ==
    /\ phase = (IF o.exc = NoExc THEN "ready" ELSE "failed")
    /\ init_exc = o.exc
    /\ _servers = o.servers
    /\ _options = o.options
    /\ has_local = o.local
    /\ _discovery_timeout = o.timeout
    /\ _ignore_cluster_errors = o.ignore

\* the endpoint the instances of Spec are configured with
ConfiguredServers == << << "h", ":", "h" >> >>

\* a freshly constructed instance
Init ==
    /\ \E options \in OptionInputs, timeout \in TimeoutInputs, local \in BOOLEAN :
           Holds(__init__(ConfiguredServers, options, timeout, local))
    /\ phase = "ready"
    /\ Fresh

\* the instance and the record of the calls after the wrapped operation of
\* context c ended as o
WrappedEffect(c, net, o) ==
    /\ _cluster_nodes_cache' = o.s.cache
    /\ _client' = o.s.client
    /\ discoveries' = o.s.disc
    /\ constructions' = o.s.cons
    /\ last' = [kind |-> "operation", ctx |-> c, exc |-> o.exc,
                op_exc |-> o.op_exc, op_calls |-> o.op_calls, raises |-> o.raises,
                disc |-> o.s.disc - discoveries, cons |-> o.s.cons - constructions,
                disc_after |-> o.disc_after, cons_after |-> o.cons_after,
                used |-> o.used, value |-> << >>,
                net |-> IF o.called THEN net.kind ELSE "unused",
                asked |-> o.asked, failed |-> o.failed,
                pending_before |-> pending, anchored |-> FALSE,
                after_op_failure |-> (last.ctx = c /\ last.op_exc # NoExc),
                client_kept |-> (o.s.client = _client),
                nodes_kept |-> (o.s.cache = _cluster_nodes_cache),
                after_clear |-> "no",
                found |-> IF o.called THEN net.nodes ELSE << >>,
                tolerated |-> (o.called /\ net.tolerated)]
    /\ pending' = IF o.asked THEN o.failed ELSE pending
    /\ anchor' = IF o.exc # NoExc THEN None ELSE anchor
    /\ hist' = IF /\ o.exc = NoExc
                  /\ \/ hist.state = "none"
                     \/ hist.state = "okops" /\ hist.ctx = c
               THEN [state |-> "okops", ctx |-> c]
               ELSE [state |-> "other", ctx |-> 0]

\* one call of a wrapped operation by context c
WrappedCall(c, net, res) ==
    /\ phase = "ready"
    /\ calls < MaxCalls
    /\ WrappedEffect(c, net, invalidate_cache_after_error(Self, c, net, res))
    /\ calls' = calls + 1
    /\ UNCHANGED << phase, init_exc, config, threads >>

\* the instance and the record of the calls after get_cluster_nodes ended as g
NodesEffect(net, g) ==
    /\ _cluster_nodes_cache' = g.s.cache
    /\ _client' = g.s.client
    /\ discoveries' = g.s.disc
    /\ constructions' = g.s.cons
    /\ last' = [Called("get_cluster_nodes", 0) EXCEPT
           !.exc = g.exc, !.raises = IF g.exc = NoExc THEN 0 ELSE 1,
           !.disc = g.s.disc - discoveries, !.cons = g.s.cons - constructions,
           !.value = g.value,
           !.net = IF g.called THEN net.kind ELSE "unused",
           !.asked = g.asked, !.failed = g.failed,
           !.pending_before = pending,
           !.anchored = (anchor # None),
           !.client_kept = (g.s.client = _client),
           !.nodes_kept = (g.s.cache = _cluster_nodes_cache),
           !.found = IF g.called THEN net.nodes ELSE << >>,
           !.tolerated = (g.called /\ net.tolerated)]
    /\ pending' = g.failed
    /\ anchor' = IF g.exc # NoExc THEN None
                 ELSE IF anchor = None
                 THEN Some([value |-> g.value, disc0 |-> discoveries])
                 ELSE anchor

\* a direct call of get_cluster_nodes()
GetClusterNodes(net) ==
    /\ phase = "ready"
    /\ calls < MaxCalls
    /\ NodesEffect(net, get_cluster_nodes(Self, net))
    /\ hist' = [state |-> "other", ctx |-> 0]
    /\ calls' = calls + 1
    /\ UNCHANGED << phase, init_exc, config, threads >>

\* the instance and the record of the calls after clear_cluster_nodes_cache
\* ended as k
ClearEffect(k) ==
    /\ _cluster_nodes_cache' = k.s.cache
    /\ _client' = k.s.client
    /\ last' = [Called("clear_cluster_nodes_cache", 0) EXCEPT
           !.exc = k.exc, !.raises = IF k.exc = NoExc THEN 0 ELSE 1,
           !.pending_before = pending,
           !.client_kept = (k.s.client = _client),
           !.nodes_kept = (k.s.cache = _cluster_nodes_cache),
           !.after_clear = IF last.kind # "clear_cluster_nodes_cache" THEN "no"
                           ELSE IF last.nodes_kept THEN "empty" ELSE "removed"]

\* a direct call of clear_cluster_nodes_cache()
ClearClusterNodesCache ==
    /\ phase = "ready"
    /\ calls < MaxCalls
    /\ ClearEffect(clear_cluster_nodes_cache(Self))
    /\ anchor' = None
    /\ hist' = [state |-> "other", ctx |-> 0]
    /\ calls' = calls + 1
    /\ UNCHANGED << phase, init_exc, config, discoveries, constructions, pending,
                    threads >>

\* the answers of the network and of the underlying client are drawn only
\* when the call asks for them
Quiet == CHOOSE net \in NetOutcomes : TRUE
\* what discovery would do with a failure under the flag is drawn only for
\* an instance that has the flag set
NetDrawn ==
    IF _ignore_cluster_errors THEN NetOutcomes
    ELSE {net \in NetOutcomes : ~net.tolerated}
NetAsked(c) ==
    IF invalidate_cache_after_error(Self, c, Quiet, NoExc).called
    THEN NetDrawn ELSE {Quiet}
ResAsked(c, net) ==
    IF invalidate_cache_after_error(Self, c, net, NoExc).op_calls > 0
    THEN OpOutcomes ELSE {NoExc}
NodesAsked ==
    IF get_cluster_nodes(Self, Quiet).called THEN NetDrawn ELSE {Quiet}

\* the five wrapped operations, called by some context; they differ only in
\* the operation of the underlying client they reach
get ==
    \E c \in Contexts : \E net \in NetAsked(c) : \E res \in ResAsked(c, net) :
        WrappedCall(c, net, res)

get_many ==
    \E c \in Contexts : \E net \in NetAsked(c) : \E res \in ResAsked(c, net) :
        WrappedCall(c, net, res)

set ==
    \E c \in Contexts : \E net \in NetAsked(c) : \E res \in ResAsked(c, net) :
        WrappedCall(c, net, res)

set_many ==
    \E c \in Contexts : \E net \in NetAsked(c) : \E res \in ResAsked(c, net) :
        WrappedCall(c, net, res)

delete ==
    \E c \in Contexts : \E net \in NetAsked(c) : \E res \in ResAsked(c, net) :
        WrappedCall(c, net, res)

\* get_cluster_nodes() called directly
get_cluster_nodes_call == \E net \in NodesAsked : GetClusterNodes(net)

Next ==
    \/ get
    \/ get_many
    \/ set
    \/ set_many
    \/ delete
    \/ get_cluster_nodes_call
    \/ ClearClusterNodesCache

Spec == Init /\ [][Next]_vars

(* ---------------------------- construction ----------------------------- *)

\* no instance yet
NoInstance ==
    /\ phase = "new"
    /\ init_exc = NoExc
    /\ _servers = << >>
    /\ _options = Dict({}, None)
    /\ _discovery_timeout = "unset"
    /\ _ignore_cluster_errors = FALSE
    /\ has_local = FALSE
    /\ Fresh

\* ElastiCache(server, params)
Construct(servers, options, timeout, local) ==
    /\ phase = "new"
    /\ LET o == __init__(servers, options, timeout, local)
       IN  /\ phase' = (IF o.exc = NoExc THEN "ready" ELSE "failed")
           /\ init_exc' = o.exc
           /\ _servers' = o.servers
           /\ _options' = o.options
           /\ has_local' = o.local
           /\ _discovery_timeout' = o.timeout
           /\ _ignore_cluster_errors' = o.ignore
    /\ last' = Called("init", 0)
    /\ UNCHANGED << _cluster_nodes_cache, _client, discoveries, constructions,
                    calls, pending, anchor, hist, threads >>

InitNext ==
    /\ phase = "new"
    /\ \E servers \in ServerInputs, options \in OptionInputs,
          timeout \in TimeoutInputs, local \in BOOLEAN :
           Construct(servers, options, timeout, local)

InitSpec == NoInstance /\ [][InitNext]_vars

(* -------------------------- interleaved calls -------------------------- *)
(* Contexts that share the instance call wrapped operations and            *)
(* get_cluster_nodes at the same time. A step is one access to the         *)
(* attributes of the instance; another context may run between any two.    *)

\* the sequential record of the calls plays no part here
sequential == << last, pending, anchor, hist >>

\* the call of thread t ends: it raises exc, or returns value when exc is
\* NoExc
Finish(t, exc, value) ==
    [t EXCEPT !.pc = "idle", !.exc = exc, !.value = value,
              !.nodes = << >>, !.handle = None]

\* exception e leaves the code thread t runs: in a wrapped operation the
\* except block of the wrapper takes it, a direct call ends with it
Raise(t, e) ==
    IF t.call = "operation"
    THEN [t EXCEPT !.pc = "clear_check", !.orig = e]
    ELSE Finish(t, e, << >>)

\* context c calls a wrapped operation, which reads self._cache: the client
\* in the container is taken, or get_cluster_nodes is called
cache_lookup(c) ==
    /\ phase = "ready"
    /\ threads[c].pc = "idle"
    /\ calls < MaxCalls
    /\ threads' = [threads EXCEPT ![c] =
           IF _client[Container(c)] # None
           THEN [Idle EXCEPT !.call = "operation", !.pc = "operate",
                             !.handle = cached_client(Self, c).handle]
           ELSE [Idle EXCEPT !.call = "operation", !.pc = "nodes_check"]]
    /\ calls' = calls + 1
    /\ UNCHANGED << phase, init_exc, config, _cluster_nodes_cache, _client,
                    discoveries, constructions, sequential >>

\* if not hasattr(self, '_cluster_nodes_cache') in the thread t
nodes_checked(t) ==
    IF _cluster_nodes_cache = None
    THEN [t EXCEPT !.pc = "nodes_discover"]
    ELSE [t EXCEPT !.pc = "nodes_return"]

\* context c calls get_cluster_nodes() directly and makes the presence test
get_cluster_nodes_begin(c) ==
    /\ phase = "ready"
    /\ threads[c].pc = "idle"
    /\ calls < MaxCalls
    /\ threads' = [threads EXCEPT ![c] =
           nodes_checked([Idle EXCEPT !.call = "get_cluster_nodes"])]
    /\ calls' = calls + 1
    /\ UNCHANGED << phase, init_exc, config, _cluster_nodes_cache, _client,
                    discoveries, constructions, sequential >>

\* the presence test of the get_cluster_nodes that _cache called
nodes_check(c) ==
    /\ threads[c].pc = "nodes_check"
    /\ threads' = [threads EXCEPT ![c] = nodes_checked(@)]
    /\ UNCHANGED << phase, init_exc, config, _cluster_nodes_cache, _client,
                    discoveries, constructions, calls, sequential >>

\* the try block of get_cluster_nodes in context c calls get_cluster_info;
\* the context waits for the endpoint while other contexts run
nodes_call(c) ==
    /\ threads[c].pc = "nodes_discover"
    /\ discoveries' = discoveries + 1
    /\ threads' = [threads EXCEPT ![c] = [@ EXCEPT !.pc = "nodes_wait"]]
    /\ UNCHANGED << phase, init_exc, config, _cluster_nodes_cache, _client,
                    constructions, calls, sequential >>

\* get_cluster_info answered the thread t, the try block maps the answer
\* to g: its exception is raised, or its list is about to be assigned
nodes_answered(t, g) ==
    IF g.exc # NoExc
    THEN Raise(t, g.exc)
    ELSE [t EXCEPT !.pc = "nodes_store", !.nodes = g.value]

\* the endpoint answers the get_cluster_info call of context c with net
nodes_answer(c, net) ==
    /\ threads[c].pc = "nodes_wait"
    /\ threads' = [threads EXCEPT ![c] =
           nodes_answered(@, store_cluster_nodes(Self,
               discover(Split(_servers[1], ":"), _ignore_cluster_errors, net)))]
    /\ UNCHANGED << phase, init_exc, config, _cluster_nodes_cache, _client,
                    discoveries, constructions, calls, sequential >>

\* self._cluster_nodes_cache = ... in context c, with the list the call
\* answered
nodes_store(c) ==
    /\ threads[c].pc = "nodes_store"
    /\ _cluster_nodes_cache' = Some(threads[c].nodes)
    /\ threads' = [threads EXCEPT ![c] =
           [@ EXCEPT !.pc = "nodes_return", !.nodes = << >>]]
    /\ UNCHANGED << phase, init_exc, config, _client, discoveries, constructions,
                    calls, sequential >>

\* return self._cluster_nodes_cache in context c: reading the attribute
\* raises AttributeError when it is not there
nodes_return(c) ==
    /\ threads[c].pc = "nodes_return"
    /\ threads' = [threads EXCEPT ![c] =
           IF _cluster_nodes_cache = None
           THEN Raise(@, Exc("AttributeError", << >>, "none"))
           ELSE IF @.call = "get_cluster_nodes"
           THEN Finish(@, NoExc, cached_cluster_nodes(Self).value)
           ELSE [@ EXCEPT !.pc = "construct",
                          !.nodes = cached_cluster_nodes(Self).value]]
    /\ UNCHANGED << phase, init_exc, config, _cluster_nodes_cache, _client,
                    discoveries, constructions, calls, sequential >>

\* the client self._lib.Client(nodes) returns, before behaviors are set
BareClient(id, nodes, c) ==
    [NewClient(id, nodes, c) EXCEPT !.behaviors = None, !.applied = 0]

\* client = self._lib.Client(...) in context c, from the nodes
\* get_cluster_nodes returned; the client is local to the context
client_construct(c) ==
    /\ threads[c].pc = "construct"
    /\ constructions' = constructions + 1
    /\ threads' = [threads EXCEPT ![c] =
           [@ EXCEPT !.pc = "client_behaviors", !.nodes = << >>,
                     !.handle = Some(BareClient(constructions + 1, threads[c].nodes, c))]]
    /\ UNCHANGED << phase, init_exc, config, _cluster_nodes_cache, _client,
                    discoveries, calls, sequential >>

\* if self._options: client.behaviors = ... on the client h
behaviors_set(h) ==
    IF DictLen(_options) > 0
    THEN [h EXCEPT !.behaviors = Some(Behaviors(_options)), !.applied = @ + 1]
    ELSE h

\* the behaviors are set on the local client of context c
client_behaviors(c) ==
    /\ threads[c].pc = "client_behaviors"
    /\ threads' = [threads EXCEPT ![c] =
           [@ EXCEPT !.pc = "client_store", !.handle = Some(behaviors_set(@[1]))]]
    /\ UNCHANGED << phase, init_exc, config, _cluster_nodes_cache, _client,
                    discoveries, constructions, calls, sequential >>

\* container._client = client; return client in context c
client_store(c) ==
    /\ threads[c].pc = "client_store"
    /\ _client' = [_client EXCEPT ![Container(c)] = threads[c].handle]
    /\ threads' = [threads EXCEPT ![c] = [@ EXCEPT !.pc = "operate"]]
    /\ UNCHANGED << phase, init_exc, config, _cluster_nodes_cache, discoveries,
                    constructions, calls, sequential >>

\* the operation of the underlying client in context c returns or raises
operate(c, res) ==
    /\ threads[c].pc = "operate"
    /\ threads' = [threads EXCEPT ![c] =
           IF res = NoExc THEN Finish(@, NoExc, << >>) ELSE Raise(@, res)]
    /\ UNCHANGED << phase, init_exc, config, _cluster_nodes_cache, _client,
                    discoveries, constructions, calls, sequential >>

\* the except block of the wrapper in context c: if hasattr(self,
\* '_cluster_nodes_cache') of clear_cluster_nodes_cache; with nothing to
\* delete the exception is raised again
clear_check(c) ==
    /\ threads[c].pc = "clear_check"
    /\ threads' = [threads EXCEPT ![c] =
           IF _cluster_nodes_cache # None
           THEN [@ EXCEPT !.pc = "clear_del"]
           ELSE Finish(@, @.orig, << >>)]
    /\ UNCHANGED << phase, init_exc, config, _cluster_nodes_cache, _client,
                    discoveries, constructions, calls, sequential >>

\* the del ended as k in context c: the call raises what the del raised, or
\* else the exception of the operation again
deleted(c, k) ==
    /\ _cluster_nodes_cache' = k.s.cache
    /\ threads' = [threads EXCEPT ![c] =
           Finish(@, IF k.exc # NoExc THEN k.exc ELSE @.orig, << >>)]

\* del self._cluster_nodes_cache in context c
clear_del(c) ==
    /\ threads[c].pc = "clear_del"
    /\ deleted(c, del_cluster_nodes_cache(Self))
    /\ UNCHANGED << phase, init_exc, config, _client, discoveries, constructions,
                    calls, sequential >>

wrapped_operation_called == \E c \in Contexts : cache_lookup(c)
get_cluster_nodes_called == \E c \in Contexts : get_cluster_nodes_begin(c)
nodes_check_step == \E c \in Contexts : nodes_check(c)
nodes_call_step == \E c \in Contexts : nodes_call(c)
nodes_answer_step == \E c \in Contexts, net \in NetDrawn : nodes_answer(c, net)
nodes_store_step == \E c \in Contexts : nodes_store(c)
nodes_return_step == \E c \in Contexts : nodes_return(c)
client_construct_step == \E c \in Contexts : client_construct(c)
client_behaviors_step == \E c \in Contexts : client_behaviors(c)
client_store_step == \E c \in Contexts : client_store(c)
operate_step == \E c \in Contexts, res \in OpOutcomes : operate(c, res)
clear_check_step == \E c \in Contexts : clear_check(c)
clear_del_step == \E c \in Contexts : clear_del(c)

ConcurrentNext ==
    \/ wrapped_operation_called
    \/ get_cluster_nodes_called
    \/ nodes_check_step
    \/ nodes_call_step
    \/ nodes_answer_step
    \/ nodes_store_step
    \/ nodes_return_step
    \/ client_construct_step
    \/ client_behaviors_step
    \/ client_store_step
    \/ operate_step
    \/ clear_check_step
    \/ clear_del_step

ConcurrentSpec == Init /\ [][ConcurrentNext]_vars

(* ------------------------------- claims -------------------------------- *)

\* COLD: no node list and no client cached; WARM: both cached
Cold == _cluster_nodes_cache = None /\ \A k \in Containers : _client[k] = None
Warm == _cluster_nodes_cache # None /\ \E k \in Containers : _client[k] # None

\* the number of colons in an endpoint string
Colons(e) == Cardinality({i \in 1 .. Len(e) : e[i] = ":"})

\* C1: when a wrapped operation has raised, the node list cache and the
\* client cache of the calling context are both empty on return.
C1_JointInvalidation ==
    (last.kind = "operation" /\ last.exc # NoExc)
        => /\ _cluster_nodes_cache = None
           /\ _client[Container(last.ctx)] = None

\* C2: the wrapped operation a context issues right after its operation
\* failed on a client runs (unless discovery itself fails) exactly one
\* discovery and one client construction and executes on that new client.
C2_SelfHeal ==
    (last.kind = "operation" /\ last.after_op_failure /\ ~last.failed)
        => /\ last.disc = 1
           /\ last.cons = 1
           /\ last.used # None
           /\ last.used[1].id = constructions

\* C3: between public calls the instance is COLD or WARM, and a cached
\* client was built from the node list that is cached now.
C3_ColdOrWarm ==
    /\ Cold \/ Warm
    /\ \A k \in Containers :
           _client[k] # None
               => /\ _cluster_nodes_cache # None
                  /\ _client[k][1].nodes = _cluster_nodes_cache[1]

\* C4: a get_cluster_nodes call that follows an earlier successful one with
\* no invalidation or error in between returns the same node list, and from
\* the earlier call on get_cluster_info was called at most once.
C4_DiscoveryIdempotence ==
    (last.kind = "get_cluster_nodes" /\ last.exc = NoExc /\ last.anchored)
        => /\ anchor # None
           /\ last.value = anchor[1].value
           /\ discoveries - anchor[1].disc0 <= 1

\* a second get_cluster_nodes call returned with nothing invalidated since
\* the first
C4_Witness ==
    /\ last.kind = "get_cluster_nodes"
    /\ last.exc = NoExc
    /\ last.anchored
    /\ discoveries = 1

\* C5: while only successful wrapped operations of one context have been
\* called on a new instance, there was exactly one discovery and one client
\* construction, both made by the first operation, which left the instance
\* WARM; every later operation left node list and client as they were.
C5_OnlySuccessfulOperations ==
    hist.state = "okops"
        => /\ discoveries = 1
           /\ constructions = 1
           /\ _cluster_nodes_cache # None
           /\ _client[Container(hist.ctx)] # None
           /\ _client[Container(hist.ctx)][1].nodes = _cluster_nodes_cache[1]
           /\ calls = 1 => last.disc = 1 /\ last.cons = 1
           /\ calls > 1 => /\ last.disc = 0
                           /\ last.cons = 0
                           /\ last.client_kept
                           /\ last.nodes_kept

\* a second successful operation followed the first
C5_Witness == hist.state = "okops" /\ calls >= 2

\* C6: a wrapped operation that raises has run the operation of the
\* underlying client at most once, has made no discovery and constructed no
\* client after the failure, and raises once.
C6_NonRetry ==
    (last.kind = "operation" /\ last.exc # NoExc)
        => /\ last.op_calls <= 1
           /\ last.disc_after = 0
           /\ last.cons_after = 0
           /\ last.raises = 1

\* the underlying client raised in a wrapped operation
C6_Witness ==
    last.kind = "operation" /\ last.op_exc \in OpErrors /\ last.op_calls = 1

\* C7: construction with more than one endpoint, or with an endpoint that
\* has not exactly one colon, raises InvalidCacheBackendError before any
\* discovery or client construction; a constructed instance is COLD and has
\* one endpoint of the form host:port.
C7_ConstructionValidation ==
    phase # "new"
        => /\ (\/ Len(_servers) > 1
               \/ Len(_servers) = 1 /\ Colons(_servers[1]) # 1)
                  => /\ phase = "failed"
                     /\ init_exc.type = "InvalidCacheBackendError"
                     /\ discoveries = 0
                     /\ constructions = 0
           /\ phase = "ready"
                  => /\ Len(_servers) = 1
                     /\ Colons(_servers[1]) = 1
                     /\ init_exc = NoExc
                     /\ Cold

\* construction with a single endpoint of two colons was refused
C7_Witness ==
    /\ phase = "failed"
    /\ Len(_servers) = 1
    /\ Colons(_servers[1]) = 2

\* C8: a call in which discovery failed leaves the node list cache absent
\* and constructs and caches no client, and the next run of
\* get_cluster_nodes calls get_cluster_info again.
C8_FailedDiscoveryNotCached ==
    /\ last.failed
           => /\ _cluster_nodes_cache = None
              /\ last.cons = 0
              /\ last.client_kept
    /\ (last.asked /\ last.pending_before) => last.disc = 1

\* get_cluster_nodes ran again after a failed discovery
C8_Witness == last.asked /\ last.pending_before /\ last.disc = 1

\* C9: the exception the underlying client raised in a wrapped operation is
\* the exception the caller gets, in calls that run one at a time and in
\* calls of several contexts that interleave.
C9_OperationErrorUnchanged ==
    /\ (last.kind = "operation" /\ last.op_exc # NoExc) => last.exc = last.op_exc
    /\ \A c \in Contexts :
           (/\ threads[c].pc = "idle"
            /\ threads[c].call = "operation"
            /\ threads[c].orig \in OpErrors)
               => threads[c].exc = threads[c].orig

C11_DiscoveryFailureWrapped ==
    last.failed
        => /\ last.exc.type = "Exception"
           /\ last.exc.endpoint = _servers[1]
           /\ last.exc.cause = last.net
           /\ last.exc.cause \in NetFailures

\* C12: a sequential call of clear_cluster_nodes_cache returns without
\* raising and leaves the node list cache absent from whatever state it
\* started; a second call right after the first leaves the instance as the
\* first left it.
C12_ClearIdempotent ==
    last.kind = "clear_cluster_nodes_cache"
        => /\ last.exc = NoExc
           /\ _cluster_nodes_cache = None
           /\ last.client_kept
           /\ last.after_clear # "no" => last.nodes_kept

\* clear_cluster_nodes_cache was called twice in a row and the first call
\* removed a node list
C12_Witness ==
    /\ last.kind = "clear_cluster_nodes_cache"
    /\ last.after_clear = "removed"
    /\ last.exc = NoExc

\* C15: with per-thread storage a context is only ever given a client that
\* its own read of _cache constructed: the client an operation ran on and
\* the client kept for a context were constructed by that context, nothing
\* is kept on the instance, and a context without a client constructs one.
C15_ClientPerContext ==
    has_local
        => /\ _client[0] = None
           /\ \A c \in Contexts : _client[c] # None => _client[c][1].owner = c
           /\ \A c, d \in Contexts :
                  (c # d /\ _client[c] # None /\ _client[d] # None)
                      => _client[c][1].id # _client[d][1].id
           /\ (last.kind = "operation" /\ last.used # None)
                  => /\ last.used[1].owner = last.ctx
                     /\ _client[last.ctx] = last.used
                     /\ last.client_kept <=> last.cons = 0

\* with per-thread storage both contexts have run an operation, the second
\* on a client it constructed while the first context's client was cached
C15_Witness ==
    /\ has_local
    /\ \A c \in Contexts : _client[c] # None
    /\ last.kind = "operation"
    /\ last.cons = 1
    /\ last.disc = 0

\* the behaviors the options of the instance ask for
ExpectedBehaviors ==
    IF _options.behaviors # None THEN Some(Dict(_options.behaviors[1], None))
    ELSE IF _options.top # {} THEN Some(Dict(_options.top, None))
    ELSE None

\* C16: the behaviors of a client are assigned once, when it is
\* constructed (never when no options are configured); a client returned
\* from the container has the behaviors it was constructed with.
C16_BehaviorsOnce ==
    /\ \A k \in Containers :
           _client[k] # None
               => /\ _client[k][1].applied = IF ExpectedBehaviors = None THEN 0 ELSE 1
                  /\ _client[k][1].behaviors = ExpectedBehaviors
    /\ (last.kind = "operation" /\ last.used # None)
           => /\ last.used[1].applied = IF ExpectedBehaviors = None THEN 0 ELSE 1
              /\ last.used[1].behaviors = ExpectedBehaviors

\* an operation ran on a client taken from the container, with behaviors
\* configured
C16_Witness ==
    /\ last.kind = "operation"
    /\ last.used # None
    /\ last.cons = 0
    /\ ExpectedBehaviors # None
    /\ last.used[1].applied = 1

\* C17: after a successful discovery the cached node list is the list the
\* endpoint answered with, element for element in its order, whatever was
\* cached before the invalidation; the call returns that list, and a client
\* constructed in the call is built from it.
C17_NodeListSuperseded ==
    (last.asked /\ last.net = "ok")
        => /\ last.kind = "get_cluster_nodes"
                  => /\ last.exc = NoExc
                     /\ last.value = last.found
                     /\ _cluster_nodes_cache = Some(last.found)
           /\ last.kind = "operation"
                  => /\ last.used # None
                     /\ last.used[1].nodes = last.found
                     /\ last.exc = NoExc => _cluster_nodes_cache = Some(last.found)

\* a discovery after an invalidation answered with two nodes, while a
\* client built from the list cached before is still around
C17_Witness ==
    /\ last.kind = "get_cluster_nodes"
    /\ last.net = "ok"
    /\ Len(last.found) = 2
    /\ _cluster_nodes_cache = Some(last.found)
    /\ \E k \in Containers :
           /\ _client[k] # None
           /\ _client[k][1].nodes # last.found
           /\ Len(_client[k][1].nodes) = 2

\* C13: when wrapped operations of contexts that share the instance fail
\* at the same time, under every interleaving of the presence test and the
\* del of their invalidations no invalidation raises: each caller gets the
\* exception its own operation raised.
C13_ConcurrentInvalidation ==
    \A c \in Contexts :
        (/\ threads[c].pc = "idle"
         /\ threads[c].call = "operation"
         /\ threads[c].orig # NoExc)
            => threads[c].exc = threads[c].orig

\* C14: under every interleaving with the invalidation of another context,
\* a get_cluster_nodes call returns a whole node list of one discovery or
\* raises the error of a failed discovery; it never fails because the
\* cached list went away between its presence test and its read.
C14_NodesReadConsistent ==
    \A c \in Contexts :
        (threads[c].pc = "idle" /\ threads[c].call = "get_cluster_nodes")
            => \/ /\ threads[c].exc = NoExc
                  /\ threads[c].value \in NodeLists \cup {DegradedNodeList}
               \/ threads[c].exc.type \in {"Exception"} \cup NetFailures

====
